---- MODULE Spec2Model ----
(***************************************************************************)
(* Model of backend/main.py: the two request handlers process_video        *)
(* (GET /process) and ask_question (POST /ask) over the files they keep    *)
(* under VECTOR_DIR.  Handlers run on a thread pool, so each is split at   *)
(* the statements that touch the file system or an external provider.     *)
(*                                                                         *)
(* Text is a sequence of tokens.  The two markers the code writes and      *)
(* splits on ("SUMMARY:", "FULL TRANSCRIPT:"), whitespace ("NL", "SP") and *)
(* the router's keywords are single tokens, so startswith, split, strip,   *)
(* lower and the substring test act on the model as they act on the text.  *)
(* A Python Optional[str] is <<>> (None) or <<s>>.                         *)
(***************************************************************************)
EXTENDS Naturals, Sequences, FiniteSets

VARIABLES fs, workers, ask, nextRun, ingested

vars == <<fs, workers, ask, nextRun, ingested>>

\* ------------------------------------------------------------------ bounds
\* Ingest runs ever started (each run gets the next run number).
MaxRuns == 2

\* Video ids that the transcript source knows, and the request threads that
\* serve /process concurrently.
Videos == {"v1", "v2"}
Workers == {"w1", "w2"}

\* ------------------------------------------------------------------- text
Whitespace == {"NL", "SP"}

None == <<>>
Some(s) == <<s>>

\* s.startswith(marker)
StartsWith(s, marker) == Len(s) > 0 /\ s[1] = marker

\* s.split(sep): the pieces between the occurrences of sep.
RECURSIVE Split(_, _)
Split(s, sep) ==
  IF \A i \in 1..Len(s) : s[i] # sep
  THEN <<s>>
  ELSE LET i == CHOOSE j \in 1..Len(s) :
                  s[j] = sep /\ \A h \in 1..(j - 1) : s[h] # sep
       IN  <<SubSeq(s, 1, i - 1)>> \o Split(SubSeq(s, i + 1, Len(s)), sep)

\* s.strip()
RECURSIVE LStrip(_)
LStrip(s) ==
  IF Len(s) > 0 /\ s[1] \in Whitespace THEN LStrip(Tail(s)) ELSE s

RECURSIVE RStrip(_)
RStrip(s) ==
  IF Len(s) > 0 /\ s[Len(s)] \in Whitespace
  THEN RStrip(SubSeq(s, 1, Len(s) - 1))
  ELSE s

Strip(s) == LStrip(RStrip(s))

\* s.lower(), token by token.
LowerToken(t) ==
  CASE t = "Who" -> "who"
    [] t = "Gist" -> "gist"
    [] OTHER -> t

Lower(s) == [i \in 1..Len(s) |-> LowerToken(s[i])]

\* "sep".join(parts)
RECURSIVE Join(_, _)
Join(parts, sep) ==
  IF Len(parts) = 0 THEN <<>>
  ELSE IF Len(parts) = 1 THEN parts[1]
  ELSE parts[1] \o sep \o Join(Tail(parts), sep)

\* ----------------------------------------------------------- file system
VECTOR_DIR == "vectorstores"

faiss_path(video_id) == <<VECTOR_DIR, video_id, "">>
transcript_path(video_id) == <<VECTOR_DIR, video_id, "_transcript.txt">>
summary_file(video_id) == <<VECTOR_DIR, video_id, "_summary.txt">>

Paths ==
  UNION {{faiss_path(v), transcript_path(v), summary_file(v)} : v \in Videos}

\* A path holds nothing, a text file or a directory (a saved FAISS store,
\* whose data is the list of indexed passages).  run is the ingest run whose
\* write the path last received (0: none); it is bookkeeping for the
\* properties and is never read by a handler.
NoFile == [kind |-> "none", data |-> <<>>, run |-> 0]

\* os.path.exists(path)
exists(path) == fs[path].kind # "none"

\* The videos the transcript source has English captions for; fetch raises
\* for every other id.
Captioned == {"v1"}

\* What the transcript source returns for a captioned video: the caption
\* segments joined into one text, here one token per passage-sized stretch.
Transcript(video_id) == <<"p1", "p2", "p3", "p4", "p5">>

\* What the summary generation call may answer.  Nothing constrains the
\* model's output: it may be empty, carry surrounding whitespace or repeat
\* the markers of the record format.
Summaries ==
  { <<"txt">>,
    <<"NL", "txt", "NL">>,
    <<"SUMMARY:", "txt">> }

\* The text written to the transcript record (the f-string).
RecordText(summary, transcript) ==
  <<"SUMMARY:", "NL">> \o summary \o
  <<"NL", "NL", "FULL TRANSCRIPT:", "NL">> \o transcript

\* splitter.create_documents([transcript]): the passages, in order.
create_documents(transcript) ==
  [i \in 1..Len(transcript) |-> <<transcript[i]>>]

\* ------------------------------------------------------------- responses
NoResult == [kind |-> "none", msg |-> "", chunks |-> 0, summary |-> <<>>]

IngestError(stage) ==
  [kind |-> "error", msg |-> stage, chunks |-> 0, summary |-> <<>>]

\* An exception that no try block of the handler catches.
IngestException ==
  [kind |-> "exception", msg |-> "OSError", chunks |-> 0, summary |-> <<>>]

IngestOk(chunks, summary) ==
  [kind |-> "ok", msg |-> "Processing complete (optimized)",
   chunks |-> Len(chunks), summary |-> summary]

IdleWorker ==
  [pc |-> "idle", video |-> "v1", run |-> 0, transcript |-> <<>>,
   summary |-> <<>>, chunks |-> <<>>, result |-> NoResult]

\* The handler returns: its locals go away, the response stays until the
\* thread serves its next request.  video and run stay with a success
\* response to tell which request it answers (bookkeeping for the
\* properties).
Return(w, response) ==
  IF response.kind = "ok"
  THEN [IdleWorker EXCEPT !.pc = "done", !.video = workers[w].video,
                          !.run = workers[w].run, !.result = response]
  ELSE [IdleWorker EXCEPT !.pc = "done", !.result = response]

\* --------------------------------------------------------- process_video
\* The pool hands a request to its first free thread (which thread serves a
\* request makes no difference to the handler).
Free(w) ==
  /\ workers[w].pc \in {"idle", "done"}
  /\ \A u \in Workers :
       (u # w /\ workers[u].pc \in {"idle", "done"}) => w = "w1"

\* A /process request arrives on a free thread and step 1 fetches the
\* transcript.
FetchTranscript(w, video_id) ==
  /\ Free(w)
  /\ video_id \in Captioned
  /\ nextRun <= MaxRuns
  /\ workers' = [workers EXCEPT ![w] =
       [IdleWorker EXCEPT !.pc = "summarize", !.video = video_id,
                          !.run = nextRun,
                          !.transcript = Transcript(video_id)]]
  /\ nextRun' = nextRun + 1
  /\ UNCHANGED <<fs, ask, ingested>>

FetchTranscriptFails(w, video_id) ==
  /\ Free(w)
  /\ nextRun <= MaxRuns
  /\ workers' = [workers EXCEPT ![w] =
       [IdleWorker EXCEPT !.pc = "done",
                          !.result = IngestError("Transcript fetch failed")]]
  /\ nextRun' = nextRun + 1
  /\ UNCHANGED <<fs, ask, ingested>>

\* Step 2: one generation call over the head of the transcript.
Summarize(w, summary) ==
  /\ workers[w].pc = "summarize"
  /\ workers' = [workers EXCEPT ![w].pc = "open", ![w].summary = summary]
  /\ UNCHANGED <<fs, ask, nextRun, ingested>>

SummarizeFails(w) ==
  /\ workers[w].pc = "summarize"
  /\ workers' = [workers EXCEPT ![w] =
                   Return(w, IngestError("Summarization failed"))]
  /\ UNCHANGED <<fs, ask, nextRun, ingested>>

\* Step 3, open(transcript_path, "w"): the file is created or truncated.
OpenRecord(w) ==
  /\ workers[w].pc = "open"
  /\ fs' = [fs EXCEPT ![transcript_path(workers[w].video)] =
              [kind |-> "file", data |-> <<>>, run |-> workers[w].run]]
  /\ workers' = [workers EXCEPT ![w].pc = "write"]
  /\ UNCHANGED <<ask, nextRun, ingested>>

\* Step 3 stands outside every try block: an OSError of open leaves the
\* handler as an exception.
OpenRecordFails(w) ==
  /\ workers[w].pc = "open"
  /\ workers' = [workers EXCEPT ![w] = Return(w, IngestException)]
  /\ UNCHANGED <<fs, ask, nextRun, ingested>>

\* Step 3, f.write and the close at the end of the with block: the text
\* goes to the file from offset 0.  What another writer put beyond its end
\* since this writer's open stays.
WriteRecord(w) ==
  LET path == transcript_path(workers[w].video)
      text == RecordText(workers[w].summary, workers[w].transcript)
      old  == fs[path].data
  IN  /\ workers[w].pc = "write"
      /\ fs' = [fs EXCEPT ![path] =
                  [kind |-> "file",
                   data |-> text \o SubSeq(old, Len(text) + 1, Len(old)),
                   run |-> workers[w].run]]
      /\ workers' = [workers EXCEPT ![w].pc = "chunk"]
      /\ UNCHANGED <<ask, nextRun, ingested>>

\* Step 4: chunk the transcript only.
Chunk(w) ==
  /\ workers[w].pc = "chunk"
  /\ workers' = [workers EXCEPT ![w].pc = "embed",
                   ![w].chunks = create_documents(workers[w].transcript)]
  /\ UNCHANGED <<fs, ask, nextRun, ingested>>

ChunkFails(w) ==
  /\ workers[w].pc = "chunk"
  /\ workers' = [workers EXCEPT ![w] =
                   Return(w, IngestError("Chunking failed"))]
  /\ UNCHANGED <<fs, ask, nextRun, ingested>>

\* Steps 3 and 5 in the wrong order: the store is saved before the record
\* is opened.
EmbedAndSaveFirst(w) ==
  /\ workers[w].pc = "open"
  /\ fs' = [fs EXCEPT ![faiss_path(workers[w].video)] =
              [kind |-> "dir",
               data |-> create_documents(workers[w].transcript),
               run |-> workers[w].run]]
  /\ workers' = [workers EXCEPT ![w] =
       Return(w, IngestOk(create_documents(workers[w].transcript),
                          workers[w].summary))]
  /\ ingested' = ingested \cup {workers[w].video}
  /\ UNCHANGED <<ask, nextRun>>

\* Step 5: embed, save the store under faiss_path and return.  save_local
\* is taken as one write of the directory.
EmbedAndSave(w) ==
  /\ workers[w].pc = "embed"
  /\ fs' = [fs EXCEPT ![faiss_path(workers[w].video)] =
              [kind |-> "dir", data |-> workers[w].chunks,
               run |-> workers[w].run]]
  /\ workers' = [workers EXCEPT ![w] =
       Return(w, IngestOk(workers[w].chunks, workers[w].summary))]
  /\ ingested' = ingested \cup {workers[w].video}
  /\ UNCHANGED <<ask, nextRun>>

EmbedFails(w) ==
  /\ workers[w].pc = "embed"
  /\ workers' = [workers EXCEPT ![w] =
                   Return(w, IngestError("Embedding/FAISS failed"))]
  /\ UNCHANGED <<fs, ask, nextRun, ingested>>

\* ----------------------------------------------------------- ask_question
\* Question texts a caller may send.
Questions ==
  { <<"who">>,
    <<"SP", "Who">>,
    <<"Gist">>,
    <<"summary", "SP", "who">> }

\* What the generation call of the RAG chain may answer.
Answers == { <<"answer">> }

global_keywords ==
  { "summary", "summarize", "overall", "main idea", "key points", "explain",
    "explain like", "overview", "gist", "in short", "high level" }

\* k in question
Contains(question, k) == \E i \in 1..Len(question) : question[i] = k

\* A normalization that trims and forgets to lower-case.
NormalizeNoLower(text) == Strip(text)

\* req.question.strip().lower()
Normalize(text) == Lower(Strip(text))

is_global(question) == \E k \in global_keywords : Contains(question, k)

\* The fallback of "Load summary": the summary cut out of the record text,
\* None when the text does not start with the marker.
summary_from_record(raw) ==
  IF StartsWith(raw, "SUMMARY:")
  THEN Some(Strip(Split(Split(raw, "SUMMARY:")[2], "FULL TRANSCRIPT:")[1]))
  ELSE None

\* search_kwargs={"k": 4}
K == 4

\* The documents docs[i], i in idx, in the order of the store.
Pick(docs, idx) ==
  [i \in 1..Cardinality(idx) |->
     docs[CHOOSE j \in idx : Cardinality({h \in idx : h < j}) = i - 1]]

\* What the retriever may return: the embedding provider decides which k
\* passages are nearest (all of them when the store holds fewer).
Retrievals(docs) ==
  LET n == Len(docs)
      m == IF n < K THEN n ELSE K
  IN  {Pick(docs, idx) : idx \in {x \in SUBSET (1..n) : Cardinality(x) = m}}

format_docs(docs) == Join(docs, <<"NL", "NL">>)

\* The three slots of the PromptTemplate; a None summary is formatted as
\* the text None.
Prompt(summary, context, question) ==
  [summary |-> IF summary = None THEN <<"None">> ELSE summary[1],
   context |-> context,
   question |-> question]

NoPrompt == [summary |-> <<>>, context |-> <<>>, question |-> <<>>]

NoCalls == [load |-> 0, retrieve |-> 0, generate |-> 0]

NoResponse == [kind |-> "none", answer |-> None, mode |-> "", msg |-> ""]

AskError(message) ==
  [kind |-> "error", answer |-> None, mode |-> "", msg |-> message]

AskException(name) ==
  [kind |-> "exception", answer |-> None, mode |-> "", msg |-> name]

\* The return of the global branch.
summary_mode(summary) ==
  [kind |-> "ok", answer |-> summary, mode |-> "summary-mode", msg |-> ""]

\* The return of the RAG branch.
rag_mode(answer) ==
  [kind |-> "ok", answer |-> Some(answer), mode |-> "rag-mode", msg |-> ""]

NOT_PROCESSED == "Video not processed. Click 'Load Transcript' first."

\* A guard that looks for the transcript record instead of the index.
not_processed_by_record(video_id) == ~exists(transcript_path(video_id))

\* The guard of ask_question.
not_processed(video_id) == ~exists(faiss_path(video_id))

\* text is req.question, question the normalized local; recRun and idxRun
\* are the runs whose record and index this request used, wasIngested
\* whether an ingest of the video had succeeded when the request came in
\* (bookkeeping for the properties).
IdleAsk ==
  [pc |-> "idle", video |-> "v1", text |-> <<>>, question |-> <<>>,
   raw |-> <<>>, summary |-> None, store |-> <<>>, calls |-> NoCalls,
   prompt |-> NoPrompt, generated |-> <<>>, recRun |-> 0, idxRun |-> 0,
   wasIngested |-> FALSE, response |-> NoResponse]

\* The handler returns: the response, and for the properties what the
\* request read (raw, summary), sent (prompt), received (generated) and
\* called, stay until the next request; the other locals go away.
AskReturn(response) ==
  [ask EXCEPT !.pc = "done", !.question = <<>>, !.store = <<>>,
              !.response = response]

\* An /ask request arrives; the question is normalized and the guard on
\* faiss_path is evaluated.
AskStart(video_id, text) ==
  /\ ask.pc \in {"idle", "done"}
  /\ ask' =
       LET a == [IdleAsk EXCEPT !.video = video_id, !.text = text,
                                !.question = Normalize(text),
                                !.wasIngested = video_id \in ingested]
       IN  IF not_processed(video_id)
           THEN [a EXCEPT !.pc = "done", !.question = <<>>,
                          !.response = AskError(NOT_PROCESSED)]
           ELSE [a EXCEPT !.pc = "summary",
                          !.idxRun = fs[faiss_path(video_id)].run]
  /\ UNCHANGED <<fs, workers, nextRun, ingested>>

\* "Load summary": from summary_file when it exists, else from the
\* transcript record.  Neither read stands in a try block.
AskLoadSummary ==
  LET path == IF exists(summary_file(ask.video))
              THEN summary_file(ask.video)
              ELSE transcript_path(ask.video)
  IN  /\ ask.pc = "summary"
      /\ ask' =
           IF fs[path].kind # "file"
           THEN AskReturn(AskException("OSError"))
           ELSE [ask EXCEPT !.pc = "route",
                   !.raw = fs[path].data,
                   !.recRun = fs[path].run,
                   !.summary = IF path = summary_file(ask.video)
                               THEN Some(fs[path].data)
                               ELSE summary_from_record(fs[path].data)]
      /\ UNCHANGED <<fs, workers, nextRun, ingested>>

\* A routing step that loads the index before it looks at the question.
AskRouteEager ==
  /\ ask.pc = "route"
  /\ ask' = IF is_global(ask.question)
            THEN [AskReturn(summary_mode(ask.summary)) EXCEPT
                    !.calls.load = @ + 1]
            ELSE [ask EXCEPT !.pc = "load"]
  /\ UNCHANGED <<fs, workers, nextRun, ingested>>

\* "Detect global questions" and the return of the summary.
AskRoute ==
  /\ ask.pc = "route"
  /\ ask' = IF is_global(ask.question)
            THEN AskReturn(summary_mode(ask.summary))
            ELSE [ask EXCEPT !.pc = "load"]
  /\ UNCHANGED <<fs, workers, nextRun, ingested>>

\* FAISS.load_local(faiss_path, ...)
AskLoadIndex ==
  /\ ask.pc = "load"
  /\ fs[faiss_path(ask.video)].kind = "dir"
  /\ ask' = [ask EXCEPT !.pc = "rag",
               !.store = fs[faiss_path(ask.video)].data,
               !.idxRun = fs[faiss_path(ask.video)].run,
               !.calls.load = @ + 1]
  /\ UNCHANGED <<fs, workers, nextRun, ingested>>

AskLoadIndexFails ==
  /\ ask.pc = "load"
  /\ ask' = [AskReturn(AskError("FAISS load failed")) EXCEPT
               !.calls.load = @ + 1]
  /\ UNCHANGED <<fs, workers, nextRun, ingested>>

\* rag_chain.invoke(question): retrieve, fill the prompt, generate, parse.
AskRag(answer) ==
  /\ ask.pc = "rag"
  /\ \E docs \in Retrievals(ask.store) :
       ask' = [AskReturn(rag_mode(answer)) EXCEPT
                 !.calls.retrieve = @ + 1,
                 !.calls.generate = @ + 1,
                 !.prompt = Prompt(ask.summary, format_docs(docs),
                                   ask.question),
                 !.generated = answer]
  /\ UNCHANGED <<fs, workers, nextRun, ingested>>

AskRagFails ==
  /\ ask.pc = "rag"
  /\ ask' = [AskReturn(AskError("RAG failed")) EXCEPT
               !.calls.retrieve = @ + 1]
  /\ UNCHANGED <<fs, workers, nextRun, ingested>>

\* ---------------------------------------------------------- specification
\* os.makedirs(VECTOR_DIR, exist_ok=True): an empty directory, no request
\* in flight.
Init ==
  /\ fs = [p \in Paths |-> NoFile]
  /\ workers = [w \in Workers |-> IdleWorker]
  /\ ask = IdleAsk
  /\ nextRun = 1
  /\ ingested = {}

Next ==
  \/ \E w \in Workers, v \in Videos : FetchTranscript(w, v)
  \/ \E w \in Workers, v \in Videos : FetchTranscriptFails(w, v)
  \/ \E w \in Workers, s \in Summaries : Summarize(w, s)
  \/ \E w \in Workers : SummarizeFails(w)
  \/ \E w \in Workers : OpenRecord(w)
  \/ \E w \in Workers : OpenRecordFails(w)
  \/ \E w \in Workers : WriteRecord(w)
  \/ \E w \in Workers : Chunk(w)
  \/ \E w \in Workers : ChunkFails(w)
  \/ \E w \in Workers : EmbedAndSave(w)
  \/ \E w \in Workers : EmbedFails(w)
  \/ \E v \in Videos, q \in Questions : AskStart(v, q)
  \/ AskLoadSummary
  \/ AskRoute
  \/ AskLoadIndex
  \/ AskLoadIndexFails
  \/ \E a \in Answers : AskRag(a)
  \/ AskRagFails

Spec == Init /\ [][Next]_vars

\* ------------------------------------------------------------ properties
TypeOK ==
  /\ \A p \in Paths : fs[p].kind \in {"none", "file", "dir"}
  /\ \A w \in Workers :
       workers[w].pc \in
         {"idle", "summarize", "open", "write", "chunk", "embed", "done"}
  /\ ask.pc \in {"idle", "summary", "route", "load", "rag", "done"}
  /\ nextRun \in 1..(MaxRuns + 1)
  /\ ingested \subseteq Videos

\* The request has returned a response of this kind.
AskDone(kind) == ask.pc = "done" /\ ask.response.kind = kind

\* The router's policy as the specification words it: the trimmed and
\* lower-cased question contains a keyword.
RoutesGlobal(text) ==
  \E k \in global_keywords :
    \E i \in 1..Len(Lower(Strip(text))) : Lower(Strip(text))[i] = k

C2_NoPartialIngestion ==
  ( /\ AskDone("ok")
    /\ \A w \in Workers : workers[w].pc \in {"idle", "done"}
    /\ \E w \in Workers : workers[w].result = IngestError("Chunking failed") )
  => ask.recRun = ask.idxRun

\* C3: when the summary cannot be read from the record (the text does not
\* start with the marker) or comes out empty, ask returns an error and
\* never a successful response.
C3_SummaryReadExplicit ==
  AskDone("ok") =>
    /\ StartsWith(ask.raw, "SUMMARY:")
    /\ ask.summary # None
    /\ ask.summary # Some(<<>>)

\* C4: a GLOBAL question on an indexed video is answered with the summary
\* cached in the record, a function of the record text alone, with no index
\* load, retrieval or generation call and no prompt.
C4_GlobalBypass ==
  (AskDone("ok") /\ RoutesGlobal(ask.text)) =>
    /\ ask.response.answer = summary_from_record(ask.raw)
    /\ ask.calls = NoCalls
    /\ ask.prompt = NoPrompt
    /\ ask.generated = <<>>

\* C4 witness: a GLOBAL question got the cached summary of an indexed video.
C4_Witness ==
  /\ AskDone("ok")
  /\ ask.text = <<"Gist">>
  /\ ask.wasIngested
  /\ ask.response.answer = Some(<<"txt">>)

C6_FailFastStructured ==
  /\ \A w \in Workers :
       workers[w].pc = "done" =>
         \/ workers[w].result.kind = "ok"
         \/ /\ workers[w].result.kind = "error"
            /\ workers[w].result.msg \in
                 {"Transcript fetch failed", "Summarization failed",
                  "Chunking failed", "Embedding/FAISS failed"}
  /\ ask.pc = "done" => ask.response.kind \in {"ok", "error"}

\* C7: the summary a GLOBAL ask returns is the very string the ingest run
\* that wrote the record generated and returned.
C7_SummaryRoundTrip ==
  \A w \in Workers :
    ( /\ AskDone("ok")
      /\ RoutesGlobal(ask.text)
      /\ workers[w].pc = "done"
      /\ workers[w].result.kind = "ok"
      /\ workers[w].run = ask.recRun
      /\ ask.raw = RecordText(workers[w].result.summary,
                              Transcript(workers[w].video)) )
    => ask.response.answer = Some(workers[w].result.summary)

\* C8: when two ingest runs of one video have both succeeded, the persisted
\* record and the persisted index are the output of one and the same run.
C8_LastWriterWins ==
  \A w1, w2 \in Workers :
    ( /\ w1 # w2
      /\ workers[w1].pc = "done" /\ workers[w1].result.kind = "ok"
      /\ workers[w2].pc = "done" /\ workers[w2].result.kind = "ok"
      /\ workers[w1].video = workers[w2].video )
    => \E w \in {w1, w2} :
         /\ fs[transcript_path(workers[w].video)].run = workers[w].run
         /\ fs[faiss_path(workers[w].video)].run = workers[w].run
         /\ fs[transcript_path(workers[w].video)].data =
              RecordText(workers[w].result.summary,
                         Transcript(workers[w].video))

\* C9: a LOCAL answer comes from exactly one generation call whose prompt
\* holds the cached summary, the context of the retrieved passages and the
\* question text as the caller sent it, and is that call's output.
C9_LocalPrompt ==
  (AskDone("ok") /\ ~RoutesGlobal(ask.text)) =>
    /\ ask.calls.generate = 1
    /\ ask.summary # None
    /\ ask.prompt.summary = ask.summary[1]
    /\ ask.prompt.question = ask.text
    /\ \E idx \in SUBSET (1..Len(fs[faiss_path(ask.video)].data)) :
         /\ Cardinality(idx) = K
         /\ ask.prompt.context =
              Join(Pick(fs[faiss_path(ask.video)].data, idx), <<"NL", "NL">>)
    /\ ask.response.answer = Some(ask.generated)

====
